---- MODULE Spec2Model ----
(***************************************************************************)
(* crates/goose/src/permission/permission_confirmation.rs                  *)
(*                                                                         *)
(* Two field-less enums (Permission, PrincipalType) and one struct         *)
(* (PermissionConfirmation) with public fields.  All three derive          *)
(* Serialize, Deserialize and Clone; the enums also derive PartialEq/Eq.   *)
(* The derived serde code is modelled by what it does on a self-describing *)
(* structured value: a struct is written as a map of its fields in         *)
(* declaration order, a unit variant as the string of its name; a struct   *)
(* is read by visiting the map's entries in order.                         *)
(***************************************************************************)
EXTENDS Integers, Sequences, FiniteSets, TLC

(* ---------------- bounds of the model ---------------- *)

\* longest external input, in map entries
MaxEntries == 4
\* number of live copies of a record
MaxHolders == 2

(* ---------------- enum Permission (lines 3-8) ---------------- *)

\* discriminants, in declaration order
AlwaysAllow == 0
AllowOnce == 1
DenyOnce == 2
Permission == {AlwaysAllow, AllowOnce, DenyOnce}

\* variant names the derives are generated from
PERMISSION_VARIANTS == <<"AlwaysAllow", "AllowOnce", "DenyOnce">>

(* ---------------- enum PrincipalType (lines 10-14) ---------------- *)

Extention == 0
Tool == 1
PrincipalType == {Extention, Tool}

PRINCIPAL_TYPE_VARIANTS == <<"Extention", "Tool">>

(* ---------------- structured values ---------------- *)

\* a scalar of the interchange format: its kind and its text
Str(s) == [kind |-> "String", s |-> s]
Num(s) == [kind |-> "Number", s |-> s]

\* one entry of a map
Entry(k, v) == [key |-> k, value |-> v]

\* field names of the struct, in declaration order
FIELDS == <<"principal_name", "principal_type", "permission">>

\* principal names a caller constructs records with
Names == {"", "web-search", "jira-extension", "developer", "Tool"}

\* the record type
PermissionConfirmation ==
    [principal_name : Names, principal_type : PrincipalType, permission : Permission]

NoRecord == [none |-> TRUE]
NoValue == <<[none |-> TRUE]>>
NoResult == [none |-> TRUE]

New_defaulting(n, t, p) ==
    [principal_name |-> IF n = "" THEN "unnamed" ELSE n,
     principal_type |-> t,
     permission |-> p]

\* struct expression PermissionConfirmation { principal_name, principal_type, permission }
New(n, t, p) == [principal_name |-> n, principal_type |-> t, permission |-> p]


\* derived Clone: a field-wise copy
clone(x) ==
    [principal_name |-> x.principal_name,
     principal_type |-> x.principal_type,
     permission |-> x.permission]

\* derived PartialEq of a field-less enum: the discriminants are compared
Permission_eq(a, b) == a = b

PrincipalType_eq_conflating(a, b) == TRUE

PrincipalType_eq(a, b) == a = b

(* ---------------- derived Serialize ---------------- *)

serialize_Permission_shifted(v) == Str(PERMISSION_VARIANTS[((v + 1) % 3) + 1])

\* serialize_unit_variant: the variant's name as a string
serialize_Permission(v) == Str(PERMISSION_VARIANTS[v + 1])

serialize_PrincipalType_respelled(v) == Str(<<"Extension", "Tool">>[v + 1])

serialize_PrincipalType(v) == Str(PRINCIPAL_TYPE_VARIANTS[v + 1])

to_value_renamed(x) ==
    << Entry("name", Str(x.principal_name)),
       Entry(FIELDS[2], serialize_PrincipalType(x.principal_type)),
       Entry(FIELDS[3], serialize_Permission(x.permission)) >>

\* serialize_struct: one entry per field, in declaration order
to_value(x) ==
    << Entry(FIELDS[1], Str(x.principal_name)),
       Entry(FIELDS[2], serialize_PrincipalType(x.principal_type)),
       Entry(FIELDS[3], serialize_Permission(x.permission)) >>

(* ---------------- derived Deserialize ---------------- *)

\* Result<String, Error>
OkStr(s) == [ok |-> TRUE, val |-> s, err |-> ""]
ErrStr(e) == [ok |-> FALSE, val |-> "", err |-> e]
\* Result<enum, Error>
OkTag(d) == [ok |-> TRUE, val |-> d, err |-> ""]
ErrTag(e) == [ok |-> FALSE, val |-> -1, err |-> e]
\* Result<PermissionConfirmation, Error>
Ok(x) == [ok |-> TRUE, val |-> x, err |-> ""]
Err(e) == [ok |-> FALSE, val |-> NoRecord, err |-> e]

\* String::deserialize
deserialize_String(v) ==
    IF v.kind = "String" THEN OkStr(v.s) ELSE ErrStr("invalid type")

\* index of the variant named tag, 0 when there is none
VariantIndex(variants, tag) ==
    IF \E i \in DOMAIN variants : variants[i] = tag
    THEN CHOOSE i \in DOMAIN variants : variants[i] = tag
    ELSE 0

deserialize_Permission_defaulting(v) ==
    IF v.kind # "String" THEN ErrTag("invalid type")
    ELSE IF VariantIndex(PERMISSION_VARIANTS, v.s) = 0 THEN OkTag(DenyOnce)
    ELSE OkTag(VariantIndex(PERMISSION_VARIANTS, v.s) - 1)

\* Permission::deserialize: the tag must be one of the variant names
deserialize_Permission(v) ==
    IF v.kind # "String" THEN ErrTag("invalid type")
    ELSE IF VariantIndex(PERMISSION_VARIANTS, v.s) = 0 THEN ErrTag("unknown variant")
    ELSE OkTag(VariantIndex(PERMISSION_VARIANTS, v.s) - 1)

\* PrincipalType::deserialize
deserialize_PrincipalType(v) ==
    IF v.kind # "String" THEN ErrTag("invalid type")
    ELSE IF VariantIndex(PRINCIPAL_TYPE_VARIANTS, v.s) = 0 THEN ErrTag("unknown variant")
    ELSE OkTag(VariantIndex(PRINCIPAL_TYPE_VARIANTS, v.s) - 1)

\* Option<T> slots of the struct visitor
None == [some |-> FALSE]
Some(x) == [some |-> TRUE, v |-> x]

\* the visitor's locals before the first entry
NoFields == [f0 |-> None, f1 |-> None, f2 |-> None, err |-> ""]

Fail(acc, e) == IF acc.err = "" THEN [acc EXCEPT !.err = e] ELSE acc

deny_unknown_field(acc) == Fail(acc, "unknown field")

\* an entry whose key is no field of the struct is skipped (IgnoredAny)
ignore_unknown_field(acc) == acc

\* one iteration of the visitor's loop over the map's entries
visit_entry(acc, e) ==
    IF acc.err # "" THEN acc
    ELSE IF e.key = FIELDS[1] THEN
        IF acc.f0.some THEN Fail(acc, "duplicate field")
        ELSE LET r == deserialize_String(e.value)
             IN  IF r.ok THEN [acc EXCEPT !.f0 = Some(r.val)] ELSE Fail(acc, r.err)
    ELSE IF e.key = FIELDS[2] THEN
        IF acc.f1.some THEN Fail(acc, "duplicate field")
        ELSE LET r == deserialize_PrincipalType(e.value)
             IN  IF r.ok THEN [acc EXCEPT !.f1 = Some(r.val)] ELSE Fail(acc, r.err)
    ELSE IF e.key = FIELDS[3] THEN
        IF acc.f2.some THEN Fail(acc, "duplicate field")
        ELSE LET r == deserialize_Permission(e.value)
             IN  IF r.ok THEN [acc EXCEPT !.f2 = Some(r.val)] ELSE Fail(acc, r.err)
    ELSE ignore_unknown_field(acc)

RECURSIVE visit_map(_, _, _)
visit_map(entries, i, acc) ==
    IF i > Len(entries) THEN acc
    ELSE visit_map(entries, i + 1, visit_entry(acc, entries[i]))

missing_field_defaulted(acc) ==
    Ok(New(IF acc.f0.some THEN acc.f0.v ELSE "",
           IF acc.f1.some THEN acc.f1.v ELSE Extention,
           IF acc.f2.some THEN acc.f2.v ELSE AlwaysAllow))

\* a field that no entry supplied, and that has no default, is an error
missing_field(acc) == Err("missing field")

\* PermissionConfirmation::deserialize over a map
from_value(entries) ==
    LET acc == visit_map(entries, 1, NoFields)
    IN  IF acc.err # "" THEN Err(acc.err)
        ELSE IF ~acc.f0.some \/ ~acc.f1.some \/ ~acc.f2.some THEN missing_field(acc)
        ELSE Ok(New(acc.f0.v, acc.f1.v, acc.f2.v))

(* ---------------- external inputs ---------------- *)

\* entries an external producer may send: well-formed ones, unknown tags,
\* values of the wrong kind and a field the struct does not have
InputEntries ==
    { Entry(FIELDS[1], v) :
        v \in {Str(""), Str("web-search"), Str("jira-extension"), Num("7")} }
    \cup { Entry(FIELDS[2], v) :
        v \in {Str("Extention"), Str("Tool"), Str("Extension"), Num("7")} }
    \cup { Entry(FIELDS[3], v) :
        v \in {Str("AlwaysAllow"), Str("AllowOnce"), Str("DenyOnce"),
               Str("AlwaysDeny"), Num("7")} }
    \cup { Entry("session_id", Str("42")) }

Inputs == UNION { [1..n -> InputEntries] : n \in 0..MaxEntries }

\* arguments a caller may construct a record from
Arguments == [name : Names, type : PrincipalType, perm : Permission]

\* names of the principals a consuming cache is exercised with
StoreNames == {"web-search", "jira-extension"}

(* ---------------- state ---------------- *)

\* args: the caller's (name, type, permission)
\* record: the PermissionConfirmation built from args
\* wire: the last serialized value
\* input: a structured value received from outside
\* result: the last Result of deserialization
\* holders: the copies of a record that are alive, one per holder
\* cmp: the last comparison of two holders' enum fields
\* store: a consuming cache, entries keyed on (principal_name, principal_type)
\* found: the last lookup in the cache
VARIABLES args, record, wire, input, result, holders, cmp, store, found

vars == <<args, record, wire, input, result, holders, cmp, store, found>>

NoCmp == [none |-> TRUE]
NoLookup == [none |-> TRUE]

InitRest ==
    /\ record = NoRecord
    /\ wire = NoValue
    /\ result = NoResult
    /\ holders = <<>>
    /\ cmp = NoCmp
    /\ store = {}
    /\ found = NoLookup

(* ---------------- construct, serialize, deserialize ---------------- *)

Init ==
    /\ args \in Arguments
    /\ input = <<>>
    /\ InitRest

\* let record = PermissionConfirmation { principal_name, principal_type, permission }
Construct ==
    /\ record' = New(args.name, args.type, args.perm)
    /\ UNCHANGED <<args, wire, input, result, holders, cmp, store, found>>

\* wire = to_value(&record)
SerializeRecord ==
    /\ record # NoRecord
    /\ wire' = to_value(record)
    /\ UNCHANGED <<args, record, input, result, holders, cmp, store, found>>

\* result = from_value::<PermissionConfirmation>(wire)
DeserializeWire ==
    /\ wire # NoValue
    /\ result' = from_value(wire)
    /\ UNCHANGED <<args, record, wire, input, holders, cmp, store, found>>

Next == Construct \/ SerializeRecord \/ DeserializeWire

Spec == Init /\ [][Next]_vars

(* ---------------- deserialize an external input, serialize it again ---------------- *)

InitDecode ==
    /\ args = [name |-> "", type |-> Extention, perm |-> AlwaysAllow]
    /\ input \in Inputs
    /\ InitRest

\* result = from_value::<PermissionConfirmation>(input)
DeserializeInput ==
    /\ result' = from_value(input)
    /\ UNCHANGED <<args, record, wire, input, holders, cmp, store, found>>

\* wire = to_value(&result?)
SerializeDecoded ==
    /\ result # NoResult
    /\ result.ok
    /\ wire' = to_value(result.val)
    /\ UNCHANGED <<args, record, input, result, holders, cmp, store, found>>

NextDecode == DeserializeInput \/ SerializeDecoded

SpecDecode == InitDecode /\ [][NextDecode]_vars

(* ---------------- vocabulary of the properties ---------------- *)

\* the wire tags, written out
PermissionTag(v) ==
    CASE v = AlwaysAllow -> "AlwaysAllow"
      [] v = AllowOnce -> "AllowOnce"
      [] v = DenyOnce -> "DenyOnce"

PrincipalTypeTag(v) ==
    CASE v = Extention -> "Extention"
      [] v = Tool -> "Tool"

PermissionTags == {"AlwaysAllow", "AllowOnce", "DenyOnce"}
PrincipalTypeTags == {"Extention", "Tool"}
FieldNames == {"principal_name", "principal_type", "permission"}

KeysOf(s) == { s[i].key : i \in DOMAIN s }
\* a sequence of entries read as a field map
AsMap(s) == { s[i] : i \in DOMAIN s }
ValueOf(s, k) == (CHOOSE e \in AsMap(s) : e.key = k).value

\* exactly the three fields, each once
ExactlyThreeFields(s) == Len(s) = 3 /\ KeysOf(s) = FieldNames

\* a string name and enum tags of the two vocabularies
ValidTags(s) ==
    /\ ValueOf(s, "principal_name").kind = "String"
    /\ ValueOf(s, "principal_type").kind = "String"
    /\ ValueOf(s, "principal_type").s \in PrincipalTypeTags
    /\ ValueOf(s, "permission").kind = "String"
    /\ ValueOf(s, "permission").s \in PermissionTags

WellFormed(s) == ExactlyThreeFields(s) /\ ValidTags(s)

\* the record x holds the three field values of the well-formed map s
HoldsFieldsOf(x, s) ==
    /\ x.principal_name = ValueOf(s, "principal_name").s
    /\ PrincipalTypeTag(x.principal_type) = ValueOf(s, "principal_type").s
    /\ PermissionTag(x.permission) = ValueOf(s, "permission").s

\* s without the entries that are no field of the struct
KnownFields(s) == SelectSeq(s, LAMBDA e : e.key \in FieldNames)

Decoded == result # NoResult
Encoded == wire # NoValue

(* ---------------- properties of Spec ---------------- *)

\* C1: deserializing the serialization of a constructed record succeeds and
\* yields a record equal to it in principal_name, principal_type and permission
C1_RoundTrip ==
    (Decoded /\ record # NoRecord) =>
        /\ result.ok
        /\ result.val.principal_name = record.principal_name
        /\ result.val.principal_type = record.principal_type
        /\ result.val.permission = record.permission

C1_Witness ==
    /\ Decoded /\ result.ok
    /\ record = New("jira-extension", Extention, DenyOnce)

\* C5: a serialized record is a map of exactly the keys principal_name,
\* principal_type and permission; the name is the record's string and each
\* enum field is the string of its variant's declared name
C5_WireFormat ==
    Encoded =>
        /\ ExactlyThreeFields(wire)
        /\ ValueOf(wire, "principal_name") = [kind |-> "String", s |-> record.principal_name]
        /\ ValueOf(wire, "principal_type") =
              [kind |-> "String", s |-> PrincipalTypeTag(record.principal_type)]
        /\ ValueOf(wire, "permission") =
              [kind |-> "String", s |-> PermissionTag(record.permission)]

C5_Witness ==
    /\ Encoded
    /\ record # NoRecord /\ record.principal_type = Extention
    /\ ValueOf(wire, "principal_type").s = "Extention"

\* C9: construction holds exactly the caller's three values, whatever the
\* name, the empty one included, and a serialized record with the empty name
\* is accepted by deserialization
C9_NoValidation ==
    /\ record # NoRecord =>
          /\ record.principal_name = args.name
          /\ record.principal_type = args.type
          /\ record.permission = args.perm
    /\ (Decoded /\ args.name = "") =>
          (result.ok /\ result.val.principal_name = "")

C9_Witness ==
    /\ args.name = ""
    /\ record # NoRecord /\ record.principal_name = ""
    /\ Decoded /\ result.ok /\ result.val.principal_name = ""

(* ---------------- properties of SpecDecode ---------------- *)

\* C2: deserialization succeeds only when every permission tag it read is
\* AlwaysAllow, AllowOnce or DenyOnce and every principal_type tag is one of
\* the two variant names, and the variant it yields is the one the tag names:
\* any other tag is an error, never a default variant
C2_ClosedVocabulary ==
    (Decoded /\ result.ok) =>
        \A i \in DOMAIN input :
            /\ input[i].key = "permission" =>
                  /\ input[i].value.kind = "String"
                  /\ input[i].value.s \in PermissionTags
                  /\ PermissionTag(result.val.permission) = input[i].value.s
            /\ input[i].key = "principal_type" =>
                  /\ input[i].value.kind = "String"
                  /\ input[i].value.s \in PrincipalTypeTags
                  /\ PrincipalTypeTag(result.val.principal_type) = input[i].value.s

C2_Witness ==
    /\ input = << Entry("principal_name", Str("web-search")),
                  Entry("principal_type", Str("Tool")),
                  Entry("permission", Str("AlwaysDeny")) >>
    /\ Decoded /\ ~result.ok /\ result.val = NoRecord

JiraInput ==
    << Entry("principal_name", Str("jira-extension")),
       Entry("principal_type", Str("Extension")),
       Entry("permission", Str("DenyOnce")) >>

\* C3: the input with principal_type "Extension" and permission "DenyOnce"
\* deserializes to a record of the extension variant with permission DenyOnce
C3_ExtensionAccepted ==
    (input = JiraInput /\ Decoded) =>
        /\ result.ok
        /\ result.val.principal_type = Extention
        /\ result.val.permission = DenyOnce

WebSearchInput ==
    << Entry("principal_name", Str("web-search")),
       Entry("principal_type", Str("Tool")),
       Entry("permission", Str("AlwaysAllow")) >>

\* C4: a map of exactly the three fields with valid tags deserializes to a
\* record of those three values, and serializing that record gives the same
\* field map again
C4_Reencode ==
    (WellFormed(input) /\ Decoded) =>
        /\ result.ok
        /\ HoldsFieldsOf(result.val, input)
        /\ Encoded => AsMap(wire) = AsMap(input)
        /\ (Encoded /\ \A i \in 1..3 : input[i].key = FIELDS[i]) => wire = input

C4_Witness ==
    /\ input = WebSearchInput
    /\ Decoded /\ result.ok /\ result.val = New("web-search", Tool, AlwaysAllow)
    /\ Encoded /\ wire = input

\* some field of the struct has no entry
MissingField(s) == \E k \in FieldNames : k \notin KeysOf(s)

\* some field of the struct has an entry that is not a string
WrongKind(s) == \E i \in DOMAIN s : s[i].key \in FieldNames /\ s[i].value.kind # "String"

\* C6: an input in which a field of the struct is missing or of the wrong kind
\* is an error; a failed deserialization yields no record, so nothing of it is
\* ever serialized
C6_MalformedShape ==
    Decoded =>
        /\ (MissingField(input) \/ WrongKind(input)) => ~result.ok
        /\ ~result.ok => (result.val = NoRecord /\ ~Encoded)
        /\ result.ok => HoldsFieldsOf(result.val, KnownFields(input))

C6_Witness ==
    /\ input = << Entry("principal_name", Str("web-search")),
                  Entry("permission", Str("AllowOnce")) >>
    /\ Decoded /\ ~result.ok /\ result.val = NoRecord

\* C10: a well-formed input with an additional, unknown field deserializes to
\* the record of the input without it, and serializing that record gives the
\* input without the additional field
C10_UnknownFieldsIgnored ==
    (KnownFields(input) # input /\ WellFormed(KnownFields(input)) /\ Decoded) =>
        /\ result.ok
        /\ result = from_value(KnownFields(input))
        /\ HoldsFieldsOf(result.val, KnownFields(input))
        /\ Encoded =>
              /\ AsMap(wire) = AsMap(KnownFields(input))
              /\ AsMap(wire) # AsMap(input)

C10_Witness ==
    /\ input = << Entry("session_id", Str("42")),
                  Entry("principal_name", Str("web-search")),
                  Entry("principal_type", Str("Tool")),
                  Entry("permission", Str("AlwaysAllow")) >>
    /\ Decoded /\ result.ok
    /\ Encoded /\ wire = WebSearchInput

(* ---------------- holders of a record ---------------- *)

InitHolders ==
    /\ args = [name |-> "", type |-> Extention, perm |-> AlwaysAllow]
    /\ input = <<>>
    /\ InitRest

\* a holder constructs a record of its own
HolderConstruct(n, t, p) ==
    /\ Len(holders) < MaxHolders
    /\ holders' = Append(holders, New(n, t, p))
    /\ UNCHANGED <<args, record, wire, input, result, cmp, store, found>>

\* holders[i].clone() goes to a new holder
HolderClone(i) ==
    /\ Len(holders) < MaxHolders
    /\ holders' = Append(holders, clone(holders[i]))
    /\ UNCHANGED <<args, record, wire, input, result, cmp, store, found>>

\* holders[i].principal_type == holders[j].principal_type, and the same for permission
HolderCompare(i, j) ==
    /\ cmp' = [principal_type |-> PrincipalType_eq(holders[i].principal_type,
                                                   holders[j].principal_type),
               permission |-> Permission_eq(holders[i].permission,
                                            holders[j].permission)]
    /\ UNCHANGED <<args, record, wire, input, result, holders, store, found>>

\* to_value(&holders[i])
HolderSerialize(i) ==
    /\ wire' = to_value(holders[i])
    /\ UNCHANGED <<args, record, input, result, holders, cmp, store, found>>

\* holders[i].principal_name = n: the field is pub
AssignPrincipalName(i, n) ==
    /\ holders' = [holders EXCEPT ![i].principal_name = n]
    /\ UNCHANGED <<args, record, wire, input, result, cmp, store, found>>

\* holders[i].principal_type = t: the field is pub
AssignPrincipalType(i, t) ==
    /\ holders' = [holders EXCEPT ![i].principal_type = t]
    /\ UNCHANGED <<args, record, wire, input, result, cmp, store, found>>

\* holders[i].permission = p: the field is pub
AssignPermission(i, p) ==
    /\ holders' = [holders EXCEPT ![i].permission = p]
    /\ UNCHANGED <<args, record, wire, input, result, cmp, store, found>>

NextHolders ==
    \/ \E n \in StoreNames, t \in PrincipalType, p \in Permission : HolderConstruct(n, t, p)
    \/ \E i \in DOMAIN holders : HolderClone(i)
    \/ \E i \in DOMAIN holders, j \in DOMAIN holders : HolderCompare(i, j)
    \/ \E i \in DOMAIN holders : HolderSerialize(i)
    \/ \E i \in DOMAIN holders, n \in StoreNames : AssignPrincipalName(i, n)
    \/ \E i \in DOMAIN holders, t \in PrincipalType : AssignPrincipalType(i, t)
    \/ \E i \in DOMAIN holders, p \in Permission : AssignPermission(i, p)

SpecHolders == InitHolders /\ [][NextHolders]_vars

\* C8: a record that some holder has keeps the three field values it has,
\* whatever any holder does with it or with another copy
C8_Immutable ==
    [][\A i \in DOMAIN holders : i \in DOMAIN holders' => holders'[i] = holders[i]]_vars

(* ---------------- a cache keyed on (principal_name, principal_type) ---------------- *)

\* the pair that identifies the principal of x
KeyOf(x) == [name |-> x.principal_name, type |-> x.principal_type]

\* equality of two keys: the names as strings, the types by PartialEq
KeyEq(a, b) == a.name = b.name /\ PrincipalType_eq(a.type, b.type)

Lookup(k) == { x \in store : KeyEq(KeyOf(x), k) }

\* the decision for a principal replaces the one the cache has for its key
Insert(n, t, p) ==
    /\ store' = { x \in store : ~KeyEq(KeyOf(x), KeyOf(New(n, t, p))) } \cup {New(n, t, p)}
    /\ UNCHANGED <<args, record, wire, input, result, holders, cmp, found>>

\* the cache is asked for the principal (n, t)
LookupPrincipal(n, t) ==
    /\ found' = [name |-> n, type |-> t, hits |-> Lookup([name |-> n, type |-> t])]
    /\ UNCHANGED <<args, record, wire, input, result, holders, cmp, store>>

NextStore ==
    \/ \E n \in StoreNames, t \in PrincipalType, p \in Permission : Insert(n, t, p)
    \/ \E n \in StoreNames, t \in PrincipalType : LookupPrincipal(n, t)

SpecStore == InitHolders /\ [][NextStore]_vars

\* C7: records of one name and different principal types have different
\* encodings and are kept apart: a lookup of (n, t) returns only a record
\* that was inserted for name n and type t
C7_PrincipalIdentity ==
    /\ \A a \in store, b \in store :
          (a.principal_name = b.principal_name /\ a.principal_type # b.principal_type) =>
              /\ to_value(a) # to_value(b)
              /\ ValueOf(to_value(a), "principal_type") # ValueOf(to_value(b), "principal_type")
    /\ found # NoLookup =>
          \A x \in found.hits :
              x.principal_name = found.name /\ x.principal_type = found.type
    /\ \A n \in StoreNames, t \in PrincipalType :
          \A x \in Lookup([name |-> n, type |-> t]) :
              x.principal_name = n /\ x.principal_type = t

C7_Witness ==
    /\ found # NoLookup /\ found.type = Tool
    /\ \E x \in found.hits : x.principal_type = Tool /\ x.principal_name = found.name
    /\ \E y \in store : y.principal_name = found.name /\ y.principal_type = Extention

====
